---- MODULE Spec2Model ----
(***************************************************************************)
(* Model of binance_kline_downloader.py: BinanceKlineDownloader and main.  *)
(*                                                                         *)
(* Time is counted in ticks of 1/TicksPerSecond second, relative to the    *)
(* local midnight of the earliest date considered, so that the window span *)
(* of 1000 * 60 * 60 * 1000 ms stays inside TLC's integers.  Python's      *)
(* integers are unbounded, so no width is modelled.                        *)
(***************************************************************************)
EXTENDS Integers, Sequences, FiniteSets, TLC

(* ---------------------------- bounds ----------------------------------- *)

\* resolution of the clock: ticks per second (the source counts 1000)
TicksPerSecond == 2

\* longest record list one response carries in the model
MaxBatch == 2

(* --------------------------- inputs ------------------------------------ *)

\* a date string that datetime.strptime(date_str, "%Y-%m-%d") rejects
BadDate == -1

\* date strings that parse, named by their day number; 125 days = 3000 hours
DateStrings == {0, 30, 60, 125, BadDate}

\* interval strings; "7m" is not a granularity the exchange supports
Intervals == {"1m", "1h", "7m"}

SupportedIntervals == {"1m", "1h"}

\* the exchange's duration of one candle of a supported interval, in ticks
IntervalDuration(iv) ==
    IF iv = "1m" THEN 60 * TicksPerSecond ELSE 60 * 60 * TicksPerSecond

\* limit=1000, the default of get_kline_data, which the loop never overrides
Limit == 1000

(* ------------------------ pure functions ------------------------------- *)

Min(a, b) == IF a < b THEN a ELSE b

Ceil(a, b) == (a + b - 1) \div b

\* datetime.strptime(date_str, "%Y-%m-%d").timestamp() * 1000, local midnight
timestamp_to_milliseconds(date_str) == date_str * 24 * 60 * 60 * TicksPerSecond

WindowSpanTooWide == 10000 * 60 * 60 * TicksPerSecond

\* the literal (1000 * 60 * 60 * 1000) of the loop, in ticks
WindowSpan == 1000 * 60 * 60 * TicksPerSecond

BatchEndUnclamped(current, end) == current + WindowSpan

\* batch_end = min(current_start + (1000 * 60 * 60 * 1000), end_timestamp)
BatchEnd(current, end) == Min(current + WindowSpan, end)

\* the value get_kline_data hands back: None, or the decoded list
None == [none |-> TRUE, recs |-> <<>>]

Some(recs) == [none |-> FALSE, recs |-> recs]

TruthyMoreThanOne(d) == (~d.none) /\ Len(d.recs) > 1

\* `if data:` -- None and the empty list are both falsy
Truthy(d) == (~d.none) /\ Len(d.recs) > 0

ExtendFront(all, recs) == recs \o all

\* all_data.extend(data)
Extend(all, recs) == all \o recs

\* the outcomes of requests.get(...) followed by raise_for_status()
TransportFailures == {"timeout", "connection_error", "http_error"}

Outcomes == {"ok"} \cup TransportFailures

CaughtConnectionOnly(o) == o = "connection_error"

\* `except requests.exceptions.RequestException`: Timeout, ConnectionError
\* and HTTPError are all subclasses
Caught(o) == o \in TransportFailures

\* one candle as the exchange sends it: 11 positional fields, times in ticks
Kline(t, iv) ==
    <<t, "open", "high", "low", "close", "volume",
      t + IntervalDuration(iv) - 1,
      "quote_volume", "trades", "taker_base", "taker_quote">>

\* open times a response may carry for the request [start_time, end_time]:
\* the exchange treats endTime as inclusive, so end_time itself can come back
OpenTimes(start_time, end_time) ==
    {start_time, start_time + (end_time - start_time) \div 2, end_time}

RECURSIVE SeqsUpTo(_, _)
SeqsUpTo(S, n) ==
    IF n = 0 THEN {<<>>}
    ELSE LET shorter == SeqsUpTo(S, n - 1)
         IN shorter \cup {Append(s, x) : s \in {q \in shorter : Len(q) = n - 1}, x \in S}

\* the bodies response.json() may decode to: the exchange sends candles in
\* ascending open-time order
Bodies(start_time, end_time, iv) ==
    {[i \in 1..Len(ts) |-> Kline(ts[i], iv)] :
        ts \in {q \in SeqsUpTo(OpenTimes(start_time, end_time), MaxBatch) :
                   \A i \in 1..(Len(q) - 1) : q[i] < q[i + 1]}}

\* the exchange answers an unsupported interval with an HTTP error status
ServerOutcomes(iv) == IF iv \in SupportedIntervals THEN Outcomes ELSE {"http_error"}

\* datetime.fromtimestamp(ms / 1000).strftime('%Y-%m-%d %H:%M:%S'):
\* the whole second, the fraction is dropped
FormatTime(t) == t \div TicksPerSecond

FormatOne(kline) ==
    [open_time |-> FormatTime(kline[1]),
     open_price |-> kline[2],
     high_price |-> kline[3],
     low_price |-> kline[4],
     close_price |-> kline[5],
     volume |-> kline[6],
     close_time |-> FormatTime(kline[7]),
     quote_asset_volume |-> kline[8],
     number_of_trades |-> kline[9],
     taker_buy_base_asset_volume |-> kline[10],
     taker_buy_quote_asset_volume |-> kline[11]]

\* format_kline_data: one formatted dict per kline, in order
format_kline_data(kline_data) ==
    [i \in 1..Len(kline_data) |-> FormatOne(kline_data[i])]

\* the header line of save_to_txt, its 11 column titles given in English
Header ==
    <<"open_time", "open_price", "high_price", "low_price", "close_price",
      "volume", "close_time", "quote_asset_volume", "number_of_trades",
      "taker_buy_base_asset_volume", "taker_buy_quote_asset_volume">>

\* the f-string of save_to_txt: the 11 fields in fixed order
Line(item) ==
    <<item.open_time, item.open_price, item.high_price, item.low_price,
      item.close_price, item.volume, item.close_time,
      item.quote_asset_volume, item.number_of_trades,
      item.taker_buy_base_asset_volume, item.taker_buy_quote_asset_volume>>

SaveRowsOnly(data) == [i \in 1..Len(data) |-> Line(data[i])]

\* save_to_txt: open(filename, 'w'), the header, then one line per item
save_to_txt(data) == <<Header>> \o [i \in 1..Len(data) |-> Line(data[i])]

(* ------------------------------ state ---------------------------------- *)

VARIABLES
    pc,               \* position in main / download_historical_data
    start_date,       \* arguments of download_historical_data
    end_date,
    interval,
    start_timestamp,  \* locals of download_historical_data
    end_timestamp,
    all_data,
    current_start,
    batch_end,
    data,
    last_outcome,     \* what the network call of the current window did
    dir_exists,       \* the directory kline_data
    file,             \* lines of the output file, <<>> while it does not exist
    returned,         \* TRUE once download_historical_data returned filename
    net_calls,        \* number of requests.get calls made
    windows,          \* history: the (start_time, end_time) of every call
    fetched,          \* history: the value every call returned
    log,              \* history: the per-window result line printed
    trace             \* history: fetch / sleep / write events

vars == <<pc, start_date, end_date, interval, start_timestamp, end_timestamp,
          all_data, current_start, batch_end, data, last_outcome, dir_exists,
          file, returned, net_calls, windows, fetched, log, trace>>

Init ==
    /\ pc = "start"
    /\ start_date \in DateStrings
    /\ end_date \in DateStrings
    /\ interval \in Intervals
    /\ start_timestamp = 0
    /\ end_timestamp = 0
    /\ all_data = <<>>
    /\ current_start = 0
    /\ batch_end = 0
    /\ data = None
    /\ last_outcome = "-"
    /\ dir_exists \in BOOLEAN
    /\ file = <<>>
    /\ returned = FALSE
    /\ net_calls = 0
    /\ windows = <<>>
    /\ fetched = <<>>
    /\ log = <<>>
    /\ trace = <<>>

(* ----------------------------- actions --------------------------------- *)

\* lines 73-81: parse both dates, start the accumulator, create the directory;
\* a ValueError of strptime leaves download_historical_data for main's except
ParseDates ==
    /\ pc = "start"
    /\ IF start_date = BadDate \/ end_date = BadDate
       THEN /\ pc' = "raised"
            /\ UNCHANGED <<start_timestamp, end_timestamp, current_start, dir_exists>>
       ELSE /\ pc' = "loop"
            /\ start_timestamp' = timestamp_to_milliseconds(start_date)
            /\ end_timestamp' = timestamp_to_milliseconds(end_date)
            /\ current_start' = timestamp_to_milliseconds(start_date)
            /\ dir_exists' = TRUE
    /\ all_data' = <<>>
    /\ UNCHANGED <<start_date, end_date, interval, batch_end, data, last_outcome,
                   file, returned, net_calls, windows, fetched, log, trace>>

\* lines 83-88: the loop test and the window of this iteration
NextWindow ==
    /\ pc = "loop"
    /\ IF current_start < end_timestamp
       THEN /\ batch_end' = BatchEnd(current_start, end_timestamp)
            /\ pc' = "fetch"
       ELSE /\ pc' = "format"
            /\ UNCHANGED batch_end
    /\ UNCHANGED <<start_date, end_date, interval, start_timestamp, end_timestamp,
                   all_data, current_start, data, last_outcome, dir_exists, file,
                   returned, net_calls, windows, fetched, log, trace>>

\* line 91 and lines 18-34: get_kline_data(symbol, interval, current_start, batch_end)
GetKlineData ==
    /\ pc = "fetch"
    /\ net_calls' = net_calls + 1
    /\ windows' = Append(windows, <<current_start, batch_end>>)
    /\ trace' = Append(trace, "fetch")
    /\ \E o \in ServerOutcomes(interval) :
          /\ last_outcome' = o
          /\ IF o = "ok"
             THEN \E body \in Bodies(current_start, batch_end, interval) :
                     /\ data' = Some(body)
                     /\ fetched' = Append(fetched, Some(body))
                     /\ pc' = "branch"
             ELSE IF Caught(o)
             THEN /\ data' = None
                  /\ fetched' = Append(fetched, None)
                  /\ pc' = "branch"
             ELSE /\ pc' = "raised"
                  /\ UNCHANGED <<data, fetched>>
    /\ UNCHANGED <<start_date, end_date, interval, start_timestamp, end_timestamp,
                   all_data, current_start, batch_end, dir_exists, file, returned, log>>

HandleBatchNoTrailingSleep ==
    /\ pc = "branch"
    /\ IF Truthy(data)
       THEN /\ all_data' = Extend(all_data, data.recs)
            /\ log' = Append(log, [kind |-> "ok", count |-> Len(data.recs)])
       ELSE /\ all_data' = all_data
            /\ log' = Append(log, [kind |-> "fail", count |-> 0])
    /\ current_start' = batch_end
    /\ trace' = IF batch_end < end_timestamp THEN Append(trace, "sleep") ELSE trace
    /\ last_outcome' = "-"
    /\ pc' = "loop"
    /\ UNCHANGED <<start_date, end_date, interval, start_timestamp, end_timestamp,
                   batch_end, data, dir_exists, file, returned, net_calls, windows,
                   fetched>>

\* lines 93-103: the branch on data, the advance of current_start, the sleep
HandleBatch ==
    /\ pc = "branch"
    /\ IF Truthy(data)
       THEN /\ all_data' = Extend(all_data, data.recs)
            /\ log' = Append(log, [kind |-> "ok", count |-> Len(data.recs)])
       ELSE /\ all_data' = all_data
            /\ log' = Append(log, [kind |-> "fail", count |-> 0])
    /\ current_start' = batch_end
    /\ trace' = Append(trace, "sleep")
    /\ last_outcome' = "-"
    /\ pc' = "loop"
    /\ UNCHANGED <<start_date, end_date, interval, start_timestamp, end_timestamp,
                   batch_end, data, dir_exists, file, returned, net_calls, windows,
                   fetched>>

\* lines 105-115: format, write the file, return filename
FormatAndSave ==
    /\ pc = "format"
    /\ file' = save_to_txt(format_kline_data(all_data))
    /\ trace' = Append(trace, "write")
    /\ returned' = TRUE
    /\ pc' = "done"
    /\ UNCHANGED <<start_date, end_date, interval, start_timestamp, end_timestamp,
                   all_data, current_start, batch_end, data, last_outcome,
                   dir_exists, net_calls, windows, fetched, log>>

Next ==
    \/ ParseDates
    \/ NextWindow
    \/ GetKlineData
    \/ HandleBatch
    \/ FormatAndSave

Spec == Init /\ [][Next]_vars

\* the single thread always takes its next step
FairSpec == Spec /\ WF_vars(Next)

(* --------------------------- properties -------------------------------- *)

DatesParse == start_date # BadDate /\ end_date # BadDate

Completed == pc = "done"

OpenTimeOf(kline) == kline[1]

\* the records the successful calls returned, in call order
RECURSIVE SuccessfulRecords(_)
SuccessfulRecords(results) ==
    IF results = <<>> THEN <<>>
    ELSE LET r == results[1]
         IN (IF r.none THEN <<>> ELSE r.recs) \o SuccessfulRecords(Tail(results))

\* the line of the output file that one raw record must become
ExpectedRow(kline) ==
    <<kline[1] \div TicksPerSecond, kline[2], kline[3], kline[4], kline[5],
      kline[6], kline[7] \div TicksPerSecond, kline[8], kline[9], kline[10],
      kline[11]>>

IsPrefix(s, t) == Len(s) <= Len(t) /\ \A i \in 1..Len(s) : s[i] = t[i]

StrictlyIncreasing(recs) ==
    \A i \in 1..(Len(recs) - 1) : OpenTimeOf(recs[i]) < OpenTimeOf(recs[i + 1])

\* every response so far was time-ordered and inside its half-open window
ResponsesInsideWindows ==
    \A i \in 1..Len(fetched) :
        (~fetched[i].none) =>
            /\ StrictlyIncreasing(fetched[i].recs)
            /\ \A j \in 1..Len(fetched[i].recs) :
                  /\ windows[i][1] <= OpenTimeOf(fetched[i].recs[j])
                  /\ OpenTimeOf(fetched[i].recs[j]) < windows[i][2]

\* C1: the windows passed to get_kline_data are non-empty, start at
\* start_timestamp, each starts where the previous one ended, the last ends at
\* end_timestamp, and current_start advances to the window's end after a
\* failed fetch exactly as after a successful one.
WindowsContiguous ==
    /\ \A i \in 1..Len(windows) : windows[i][1] < windows[i][2]
    /\ Len(windows) > 0 => windows[1][1] = start_timestamp
    /\ \A i \in 1..(Len(windows) - 1) : windows[i + 1][1] = windows[i][2]
    /\ (pc = "loop" /\ Len(windows) > 0) =>
           current_start = windows[Len(windows)][2]
    /\ (pc \in {"format", "done"} /\ start_timestamp < end_timestamp) =>
           /\ Len(windows) > 0
           /\ windows[Len(windows)][2] = end_timestamp

WindowsContiguousWitness ==
    /\ Completed
    /\ Len(windows) = 3
    /\ fetched[2].none
    /\ ~fetched[3].none

\* C2: for every supported interval the span of the window loop is
\* limit * interval duration, so no window covers more than 1000 candles.
SpanMatchesInterval ==
    (pc = "fetch" /\ interval \in SupportedIntervals) =>
        /\ WindowSpan = Limit * IntervalDuration(interval)
        /\ batch_end - current_start <= Limit * IntervalDuration(interval)

\* C3: whatever subset of windows fails, the run does not raise, returns the
\* file path, and the rows written are the records of the successful windows,
\* concatenated in window order.
FailedWindowsSkipped ==
    /\ DatesParse => pc # "raised"
    /\ Completed =>
           /\ returned
           /\ Len(file) = 1 + Len(SuccessfulRecords(fetched))
           /\ \A i \in 1..Len(SuccessfulRecords(fetched)) :
                  file[i + 1] = ExpectedRow(SuccessfulRecords(fetched)[i])

FailedWindowsSkippedWitness ==
    /\ Completed
    /\ Len(fetched) = 3
    /\ Truthy(fetched[1])
    /\ fetched[2].none
    /\ Truthy(fetched[3])
    /\ Len(file) = 1 + Len(fetched[1].recs) + Len(fetched[3].recs)

\* C4: the file of a completed run is the header line followed by one line
\* per accumulated record, in accumulator order.
FileIsHeaderPlusRecords ==
    Completed =>
        /\ Len(file) = 1 + Len(all_data)
        /\ file[1] = Header
        /\ \A i \in 1..Len(all_data) : file[i + 1] = ExpectedRow(all_data[i])

FileIsHeaderPlusRecordsWitness ==
    /\ Completed
    /\ Len(all_data) >= 2
    /\ all_data[1] # all_data[2]
    /\ Len(file) = 1 + Len(all_data)

\* C5: a date that does not parse or an unsupported interval is fatal: the
\* run returns no file path and writes no file.
InputFailureIsFatal ==
    (~DatesParse \/ interval \notin SupportedIntervals) =>
        (~returned /\ file = <<>>)

\* C6: every call of get_kline_data makes exactly one network call, hands
\* back None for every transport failure instead of raising, and leaves
\* all_data and current_start alone.
FetcherContract ==
    /\ [](/\ net_calls = Len(windows)
          /\ last_outcome \in TransportFailures => (pc = "branch" /\ data = None))
    /\ [][pc = "fetch" =>
             /\ net_calls' = net_calls + 1
             /\ all_data' = all_data
             /\ current_start' = current_start]_vars

FetcherContractWitness ==
    /\ last_outcome = "timeout"
    /\ pc = "branch"
    /\ data = None
    /\ Len(all_data) > 0
    /\ net_calls = 2

\* C7: the window loop terminates, having issued
\* ceil((end_timestamp - start_timestamp) / (1000 * 3600 * 1000 ms)) fetches
\* when start_timestamp < end_timestamp and none otherwise, and it exits with
\* current_start = end_timestamp in the former case.
LoopTerminates ==
    /\ <>(pc \in {"done", "raised"})
    /\ [](pc \in {"format", "done"} =>
            IF start_timestamp < end_timestamp
            THEN /\ net_calls = Ceil(end_timestamp - start_timestamp,
                                     1000 * 3600 * TicksPerSecond)
                 /\ current_start = end_timestamp
            ELSE net_calls = 0)

LoopTerminatesWitness ==
    /\ Completed
    /\ net_calls = 3
    /\ end_timestamp - start_timestamp = 3 * 1000 * 3600 * TicksPerSecond

\* C8: the events of a run are (fetch, sleep) once per window, then one file
\* write after the last sleep; nothing else, and the write happens only on
\* completion.
TraceShape ==
    /\ \A i \in 1..Len(trace) :
          IF i <= 2 * Len(windows)
          THEN trace[i] = (IF i % 2 = 1 THEN "fetch" ELSE "sleep")
          ELSE trace[i] = "write" /\ Completed
    /\ Len(trace) <= 2 * Len(windows) + 1
    /\ (pc \in {"loop", "format"}) => Len(trace) = 2 * Len(windows)
    /\ Completed => Len(trace) = 2 * Len(windows) + 1

TraceShapeWitness ==
    /\ Completed
    /\ Len(windows) = 3
    /\ trace = <<"fetch", "sleep", "fetch", "sleep", "fetch", "sleep", "write">>

\* C9: every decoded record list, the empty one included, takes the success
\* branch (records appended, count logged); the failure branch is taken only
\* for the failure value None.
SuccessBranchForEveryList ==
    \A i \in 1..Len(log) :
        /\ (~fetched[i].none) =>
               (log[i].kind = "ok" /\ log[i].count = Len(fetched[i].recs))
        /\ log[i].kind = "fail" => fetched[i].none

\* C10: all_data only ever grows at its end, and while every response is
\* time-ordered and inside its half-open window, all_data is in strictly
\* increasing open-time order and inside [start_timestamp, end_timestamp).
AccumulatorOrdered ==
    /\ [][IsPrefix(all_data, all_data')]_vars
    /\ [](ResponsesInsideWindows =>
            /\ StrictlyIncreasing(all_data)
            /\ \A i \in 1..Len(all_data) :
                  /\ start_timestamp <= OpenTimeOf(all_data[i])
                  /\ OpenTimeOf(all_data[i]) < end_timestamp)

AccumulatorOrderedWitness ==
    /\ Completed
    /\ ResponsesInsideWindows
    /\ Len(fetched) = 3
    /\ Len(fetched[1].recs) = 2
    /\ Len(fetched[3].recs) = 2
    /\ Len(all_data) = 4

====
